---- MODULE Spec2Model ----
(***************************************************************************)
(* threadsafe_stack<T> of parallelStack.cpp: a std::stack<T> guarded by a  *)
(* std::shared_mutex.  Every statement of every member function is one     *)
(* step of the calling thread, so that all interleavings of the callers    *)
(* are explored.                                                           *)
(***************************************************************************)
EXTENDS Integers, Sequences, FiniteSets, Bags, TLC

\* ------------------------------------------------------------- bounds
\* the pushes and emplaces of one run; each is given a value of its own
MaxPush == 2
\* the same for a run of a single thread
MaxPushSeq == 3
\* the same for a run under fair scheduling
MaxPushFair == 1
\* the same for a run in which two stacks can be constructed
MaxPushCopy == 1
\* the same for a run in which the answers of empty() are recorded
MaxPushAdv == 1

Threads == {"t1", "t2"}
Values == 1..MaxPushSeq
\* "A" exists from the start, the others can be constructed during a run
Stacks == {"A", "B", "C"}

NoThread == "-"
NoStack == "-"
\* the state of a T after std::move took its value (valid but unspecified)
Moved == 0
NoValue == Moved - 1
\* what the caller's T holds when it is handed to pop(T&): no pushed value
Old == MaxPushSeq + 1

VARIABLES
  data,       \* data[s]: the std::stack of s, bottom first
  m,          \* m[s]: the std::shared_mutex of s
  life,       \* life[s]: "none", "constructing" (in its copy constructor) or "alive";
              \* "unused" when the run does not construct s
  pc,         \* pc[t]: the statement thread t executes next
  op,         \* op[t]: the member function t is in
  this,       \* this[t]: the stack the member function was called on
  other,      \* other[t]: the source of a copy construction
  new_value,  \* new_value[t]: the argument of push and emplace
  value,      \* value[t]: the caller's T that pop(T&) was given
  res,        \* res[t]: the shared_ptr<T> local of pop()
  ret,        \* ret[t]: what the call returns
  log,        \* log[s]: the pushes and removals of s, in the order they happened
  fresh,      \* the values no push or emplace has been given yet
  overlap,    \* a push or emplace was called on a stack while another thread
              \* was inside a push or emplace on the same stack
  checked,    \* checked[t]: what the empty() that t called last answered, and
              \* on which stack, until t calls anything but a pop of that stack
  seen        \* the ways in which a pop was seen to contradict the answer of
              \* the empty() its caller made right before it

vars == <<data, m, life, pc, op, this, other, new_value, value, res, ret, log, fresh, overlap,
          checked, seen>>

\* s has been constructed: its member functions can be called
Alive(s) == life[s] = "alive"

\* ------------------------------------------------------ std::stack<T>
IsEmpty(s) == Len(s) = 0

\* a top() that answers the oldest element
TopBottom(s) == s[1]

Top(s) == s[Len(s)]

\* a push that puts the new element under the others
PushBottom(s, v) == <<v>> \o s

PushSeq(s, v) == Append(s, v)

\* an emplace that puts the new element under the others
EmplaceBottom(s, v) == <<v>> \o s

\* data.emplace(v) constructs the new top element from v
EmplaceSeq(s, v) == s \o <<v>>

\* a pop() that takes two elements off
PopSeqTwo(s) == SubSeq(s, 1, IF Len(s) > 1 THEN Len(s) - 2 ELSE 0)

PopSeq(s) == SubSeq(s, 1, Len(s) - 1)

\* std::move(data.top()) leaves the top element in a valid but unspecified state
MovedFrom(v) == {v, Moved}

SetTop(s, v) == [s EXCEPT ![Len(s)] = v]

\* a copy that holds the elements in the opposite order
CopyReversed(s) == [i \in 1..Len(s) |-> s[Len(s) + 1 - i]]

\* data = other.data
CopyOf(s) == s

\* ------------------------------------------------- std::shared_mutex
Unlocked == [excl |-> NoThread, shared |-> {}]

CanLock(s) == m[s].excl = NoThread /\ m[s].shared = {}

\* a shared lock that is granted only when no thread holds the mutex at all
CanLockSharedAlone(s) == m[s].excl = NoThread /\ m[s].shared = {}

CanLockShared(s) == m[s].excl = NoThread

Lock(s, t) == [m EXCEPT ![s].excl = t]

Unlock(s, t) == [m EXCEPT ![s].excl = NoThread]

LockShared(s, t) == [m EXCEPT ![s].shared = @ \cup {t}]

UnlockShared(s, t) == [m EXCEPT ![s].shared = @ \ {t}]

\* ------------------------------------------------------ return values
Void == [kind |-> "void", val |-> NoValue]
NullOpt == [kind |-> "nullopt", val |-> NoValue]
Some(v) == [kind |-> "some", val |-> v]
Bool(b) == [kind |-> IF b THEN "true" ELSE "false", val |-> NoValue]
EmptyStackThrown == [kind |-> "empty_stack", val |-> NoValue]
NoRet == [kind |-> "none", val |-> NoValue]

\* ------------------------------------------------------------ history
PushEv(v) == [e |-> "push", v |-> v]
PopEv(v) == [e |-> "pop", v |-> v]

\* the history of a stack constructed holding s: as if s had been pushed
Built(s) == [i \in 1..Len(s) |-> PushEv(s[i])]

IsPush(x) == x.e = "push"

\* a thread other than t is inside a push or emplace on s
Pushing(s, t, opv) ==
  \E u \in Threads \ {t} : this[u] = s /\ opv[u] \in {"push", "emplace"}

\* t has no answer of empty() to act on
NoCheck == [ans |-> "none", s |-> NoStack]

\* the answers of empty() are not recorded in this run
CheckOff == [ans |-> "off", s |-> NoStack]

\* t now has c as the answer of its latest empty()
Note(t, c) ==
  checked' = IF checked[t] = CheckOff THEN checked ELSE [checked EXCEPT ![t] = c]

\* t calls something other than a pop of the stack it has an answer for
Forget(t) == Note(t, NoCheck) /\ seen' = seen

\* the pop of t ends with outcome after its empty() gave the answer ans
Observe(t, ans, outcome) ==
  seen' = IF checked[t].ans = ans THEN seen \cup {outcome} ELSE seen

\* ---------------------------------------------------------------- Init
\* "A" has been default constructed, no thread is in a call, n values are
\* there to be pushed and the stacks of room are there to be constructed;
\* rec: the answers of empty() are recorded
InitWith(n, room, rec) ==
  /\ data = [s \in Stacks |-> <<>>]
  /\ m = [s \in Stacks |-> Unlocked]
  /\ life = [s \in Stacks |-> IF s = "A" THEN "alive"
                             ELSE IF s \in room THEN "none" ELSE "unused"]
  /\ pc = [t \in Threads |-> "idle"]
  /\ op = [t \in Threads |-> "none"]
  /\ this = [t \in Threads |-> NoStack]
  /\ other = [t \in Threads |-> NoStack]
  /\ new_value = [t \in Threads |-> NoValue]
  /\ value = [t \in Threads |-> NoValue]
  /\ res = [t \in Threads |-> NoValue]
  /\ ret = [t \in Threads |-> NoRet]
  /\ log = [s \in Stacks |-> <<>>]
  /\ fresh = 1..n
  /\ overlap = FALSE
  /\ checked = [t \in Threads |-> IF rec THEN NoCheck ELSE CheckOff]
  /\ seen = {}

Init == InitWith(MaxPush, {"B"}, FALSE)

\* the call of t returns: its frame is gone and t can make its next call
Returns(t) ==
  /\ pc' = [pc EXCEPT ![t] = "idle"]
  /\ op' = [op EXCEPT ![t] = "none"]
  /\ this' = [this EXCEPT ![t] = NoStack]
  /\ other' = [other EXCEPT ![t] = NoStack]
  /\ new_value' = [new_value EXCEPT ![t] = NoValue]
  /\ value' = [value EXCEPT ![t] = NoValue]
  /\ res' = [res EXCEPT ![t] = NoValue]
  /\ ret' = [ret EXCEPT ![t] = NoRet]

\* ---------------------------------------------------------------- push
\* The steps of push and of emplace are written over the position and the
\* member function of every thread before (pcv, opv) and after (pcv2, opv2)
\* the step: for the steps the threads take these are pc, op, pc' and op'.

\* a caller invokes s.push(v)
CallPushIn(t, pcv, opv, pcv2, opv2) ==
  /\ pcv[t] = "idle"
  /\ \E s \in Stacks, v \in fresh :
       /\ Alive(s)
       /\ this' = [this EXCEPT ![t] = s]
       /\ new_value' = [new_value EXCEPT ![t] = v]
       /\ fresh' = fresh \ {v}
       /\ overlap' = (overlap \/ Pushing(s, t, opv))
  /\ pcv2 = [pcv EXCEPT ![t] = "push_lock"]
  /\ opv2 = [opv EXCEPT ![t] = "push"]
  /\ UNCHANGED <<data, m, life, other, value, res, ret, log>>
  /\ Forget(t)

CallPush(t) == CallPushIn(t, pc, op, pc', op')

\* std::scoped_lock lock(m);
PushLockIn(t, pcv, opv, pcv2, opv2) ==
  /\ pcv[t] = "push_lock"
  /\ CanLock(this[t])
  /\ m' = Lock(this[t], t)
  /\ pcv2 = [pcv EXCEPT ![t] = "push_body"]
  /\ opv2 = opv
  /\ UNCHANGED <<data, life, this, other, new_value, value, res, ret, log, fresh, overlap, checked, seen>>

\* a push that does not take the lock
PushNoLock(t) ==
  /\ pc[t] = "push_lock"
  /\ pc' = [pc EXCEPT ![t] = "push_body"]
  /\ UNCHANGED <<data, m, life, op, this, other, new_value, value, res, ret, log, fresh, overlap, checked, seen>>

PushLock(t) == PushLockIn(t, pc, op, pc', op')

\* data.push(std::move(new_value));
PushBodyIn(t, pcv, opv, pcv2, opv2) ==
  /\ pcv[t] = "push_body"
  /\ data' = [data EXCEPT ![this[t]] = PushSeq(@, new_value[t])]
  /\ log' = [log EXCEPT ![this[t]] = Append(@, PushEv(new_value[t]))]
  /\ new_value' = [new_value EXCEPT ![t] = Moved]
  /\ ret' = [ret EXCEPT ![t] = Void]
  /\ pcv2 = [pcv EXCEPT ![t] = "unlock"]
  /\ opv2 = opv
  /\ UNCHANGED <<m, life, this, other, value, res, fresh, overlap, checked, seen>>

\* a push that overwrites the top element when there is one
PushBodyReplaces(t) ==
  /\ pc[t] = "push_body"
  /\ data' = [data EXCEPT ![this[t]] =
                IF IsEmpty(@) THEN PushSeq(@, new_value[t]) ELSE SetTop(@, new_value[t])]
  /\ log' = [log EXCEPT ![this[t]] = Append(@, PushEv(new_value[t]))]
  /\ new_value' = [new_value EXCEPT ![t] = Moved]
  /\ ret' = [ret EXCEPT ![t] = Void]
  /\ pc' = [pc EXCEPT ![t] = "unlock"]
  /\ UNCHANGED <<m, life, op, this, other, value, res, fresh, overlap, checked, seen>>

PushBody(t) == PushBodyIn(t, pc, op, pc', op')

\* a return that keeps the lock when a pop returns early with nullopt
ScopedUnlockLeaks(t) ==
  /\ pc[t] = "unlock"
  /\ m' = IF ret[t] = NullOpt THEN m ELSE Unlock(this[t], t)
  /\ Returns(t)
  /\ UNCHANGED <<data, life, log, fresh, overlap>>
  /\ Forget(t)

\* the end of the scope of the std::scoped_lock: the call returns
ScopedUnlock(t) ==
  /\ pc[t] = "unlock"
  /\ m' = Unlock(this[t], t)
  /\ Returns(t)
  /\ UNCHANGED <<data, life, log, fresh, overlap>>
  /\ Forget(t)

\* ------------------------------------------------------------- emplace
\* a caller invokes s.emplace(v)
CallEmplaceIn(t, pcv, opv, pcv2, opv2) ==
  /\ pcv[t] = "idle"
  /\ \E s \in Stacks, v \in fresh :
       /\ Alive(s)
       /\ this' = [this EXCEPT ![t] = s]
       /\ new_value' = [new_value EXCEPT ![t] = v]
       /\ fresh' = fresh \ {v}
       /\ overlap' = (overlap \/ Pushing(s, t, opv))
  /\ pcv2 = [pcv EXCEPT ![t] = "emplace_lock"]
  /\ opv2 = [opv EXCEPT ![t] = "emplace"]
  /\ UNCHANGED <<data, m, life, other, value, res, ret, log>>
  /\ Forget(t)

CallEmplace(t) == CallEmplaceIn(t, pc, op, pc', op')

\* std::scoped_lock lock(m);
EmplaceLockIn(t, pcv, opv, pcv2, opv2) ==
  /\ pcv[t] = "emplace_lock"
  /\ CanLock(this[t])
  /\ m' = Lock(this[t], t)
  /\ pcv2 = [pcv EXCEPT ![t] = "emplace_body"]
  /\ opv2 = opv
  /\ UNCHANGED <<data, life, this, other, new_value, value, res, ret, log, fresh, overlap, checked, seen>>

EmplaceLock(t) == EmplaceLockIn(t, pc, op, pc', op')

\* data.emplace(std::forward<T>(new_value));
EmplaceBodyIn(t, pcv, opv, pcv2, opv2) ==
  /\ pcv[t] = "emplace_body"
  /\ data' = [data EXCEPT ![this[t]] = EmplaceSeq(@, new_value[t])]
  /\ log' = [log EXCEPT ![this[t]] = Append(@, PushEv(new_value[t]))]
  /\ new_value' = [new_value EXCEPT ![t] = Moved]
  /\ ret' = [ret EXCEPT ![t] = Void]
  /\ pcv2 = [pcv EXCEPT ![t] = "unlock"]
  /\ opv2 = opv
  /\ UNCHANGED <<m, life, this, other, value, res, fresh, overlap, checked, seen>>

EmplaceBody(t) == EmplaceBodyIn(t, pc, op, pc', op')

\* ----------------------------------------------------------------- pop
\* a caller invokes s.pop()
CallPop(t) ==
  /\ pc[t] = "idle"
  /\ \E s \in Stacks :
       /\ Alive(s)
       /\ this' = [this EXCEPT ![t] = s]
       /\ IF checked[t].s = s THEN checked' = checked ELSE Note(t, NoCheck)
  /\ pc' = [pc EXCEPT ![t] = "pop_lock"]
  /\ op' = [op EXCEPT ![t] = "pop"]
  /\ UNCHANGED <<data, m, life, other, new_value, value, res, ret, log, fresh, overlap>>
  /\ seen' = seen

\* a pop() that takes the lock in shared mode
PopLockShared(t) ==
  /\ pc[t] = "pop_lock"
  /\ CanLockShared(this[t])
  /\ m' = LockShared(this[t], t)
  /\ pc' = [pc EXCEPT ![t] = "pop_empty"]
  /\ UNCHANGED <<data, life, op, this, other, new_value, value, res, ret, log, fresh, overlap, checked, seen>>

\* std::scoped_lock lock(m);
PopLock(t) ==
  /\ pc[t] = "pop_lock"
  /\ CanLock(this[t])
  /\ m' = Lock(this[t], t)
  /\ pc' = [pc EXCEPT ![t] = "pop_empty"]
  /\ UNCHANGED <<data, life, op, this, other, new_value, value, res, ret, log, fresh, overlap, checked, seen>>

\* a pop() that throws empty_stack when the stack is empty
PopEmptyThrows(t) ==
  /\ pc[t] = "pop_empty"
  /\ IF IsEmpty(data[this[t]])
       THEN /\ ret' = [ret EXCEPT ![t] = EmptyStackThrown]
            /\ pc' = [pc EXCEPT ![t] = "unlock"]
       ELSE /\ ret' = ret
            /\ pc' = [pc EXCEPT ![t] = "pop_move"]
  /\ UNCHANGED <<data, m, life, op, this, other, new_value, value, res, log, fresh, overlap, checked, seen>>

\* if (data.empty()) return std::nullopt;
PopEmpty(t) ==
  /\ pc[t] = "pop_empty"
  /\ IF IsEmpty(data[this[t]])
       THEN /\ ret' = [ret EXCEPT ![t] = NullOpt]
            /\ pc' = [pc EXCEPT ![t] = "unlock"]
       ELSE /\ ret' = ret
            /\ pc' = [pc EXCEPT ![t] = "pop_move"]
  /\ UNCHANGED <<data, m, life, op, this, other, new_value, value, res, log, fresh, overlap>>
  /\ checked' = checked
  /\ IF IsEmpty(data[this[t]]) THEN Observe(t, "false", "false_absent") ELSE seen' = seen

\* auto res = std::make_shared<T>(std::move(data.top()));
PopMove(t) ==
  /\ pc[t] = "pop_move"
  /\ res' = [res EXCEPT ![t] = Top(data[this[t]])]
  /\ \E left \in MovedFrom(Top(data[this[t]])) :
       data' = [data EXCEPT ![this[t]] = SetTop(@, left)]
  /\ pc' = [pc EXCEPT ![t] = "pop_pop"]
  /\ UNCHANGED <<m, life, op, this, other, new_value, value, ret, log, fresh, overlap, checked, seen>>

\* a pop() that returns the top element and leaves it on the stack
PopPopKeeps(t) ==
  /\ pc[t] = "pop_pop"
  /\ data' = [data EXCEPT ![this[t]] = SetTop(@, res[t])]
  /\ log' = [log EXCEPT ![this[t]] = Append(@, PopEv(res[t]))]
  /\ ret' = [ret EXCEPT ![t] = Some(res[t])]
  /\ pc' = [pc EXCEPT ![t] = "unlock"]
  /\ UNCHANGED <<m, life, op, this, other, new_value, value, res, fresh, overlap, checked, seen>>

\* data.pop(); return res;
PopPop(t) ==
  /\ pc[t] = "pop_pop"
  /\ data' = [data EXCEPT ![this[t]] = PopSeq(@)]
  /\ log' = [log EXCEPT ![this[t]] = Append(@, PopEv(res[t]))]
  /\ ret' = [ret EXCEPT ![t] = Some(res[t])]
  /\ pc' = [pc EXCEPT ![t] = "unlock"]
  /\ UNCHANGED <<m, life, op, this, other, new_value, value, res, fresh, overlap>>
  /\ checked' = checked
  /\ Observe(t, "true", "true_value")

\* ------------------------------------------------------------- pop(T&)
\* a caller invokes s.pop(value), its value holding Old
CallPopV(t) ==
  /\ pc[t] = "idle"
  /\ \E s \in Stacks :
       /\ Alive(s)
       /\ this' = [this EXCEPT ![t] = s]
       /\ IF checked[t].s = s THEN checked' = checked ELSE Note(t, NoCheck)
       /\ value' = [value EXCEPT ![t] = Old]
  /\ pc' = [pc EXCEPT ![t] = "popv_lock"]
  /\ op' = [op EXCEPT ![t] = "popv"]
  /\ UNCHANGED <<data, m, life, other, new_value, res, ret, log, fresh, overlap>>
  /\ seen' = seen

\* std::scoped_lock lock(m);
PopVLock(t) ==
  /\ pc[t] = "popv_lock"
  /\ CanLock(this[t])
  /\ m' = Lock(this[t], t)
  /\ pc' = [pc EXCEPT ![t] = "popv_empty"]
  /\ UNCHANGED <<data, life, op, this, other, new_value, value, res, ret, log, fresh, overlap, checked, seen>>

\* a pop(T&) that waits for an element instead of returning nullopt
PopVEmptyBlocks(t) ==
  /\ pc[t] = "popv_empty"
  /\ ~IsEmpty(data[this[t]])
  /\ pc' = [pc EXCEPT ![t] = "popv_move"]
  /\ UNCHANGED <<data, m, life, op, this, other, new_value, value, res, ret, log, fresh, overlap, checked, seen>>

\* if (data.empty()) return std::nullopt;
PopVEmpty(t) ==
  /\ pc[t] = "popv_empty"
  /\ IF IsEmpty(data[this[t]])
       THEN /\ ret' = [ret EXCEPT ![t] = NullOpt]
            /\ pc' = [pc EXCEPT ![t] = "unlock"]
       ELSE /\ ret' = ret
            /\ pc' = [pc EXCEPT ![t] = "popv_move"]
  /\ UNCHANGED <<data, m, life, op, this, other, new_value, value, res, log, fresh, overlap>>
  /\ checked' = checked
  /\ IF IsEmpty(data[this[t]]) THEN Observe(t, "false", "false_absent") ELSE seen' = seen

\* value = std::move(data.top());
PopVMove(t) ==
  /\ pc[t] = "popv_move"
  /\ value' = [value EXCEPT ![t] = Top(data[this[t]])]
  /\ \E left \in MovedFrom(Top(data[this[t]])) :
       data' = [data EXCEPT ![this[t]] = SetTop(@, left)]
  /\ pc' = [pc EXCEPT ![t] = "popv_pop"]
  /\ UNCHANGED <<m, life, op, this, other, new_value, res, ret, log, fresh, overlap, checked, seen>>

\* a pop(T&) that moves from the top a second time for its return value
PopVPopMovedTwice(t) ==
  /\ pc[t] = "popv_pop"
  /\ data' = [data EXCEPT ![this[t]] = PopSeq(@)]
  /\ log' = [log EXCEPT ![this[t]] = Append(@, PopEv(value[t]))]
  /\ ret' = [ret EXCEPT ![t] = Some(Top(data[this[t]]))]
  /\ pc' = [pc EXCEPT ![t] = "unlock"]
  /\ UNCHANGED <<m, life, op, this, other, new_value, value, res, fresh, overlap, checked, seen>>

\* data.pop(); return value;
PopVPop(t) ==
  /\ pc[t] = "popv_pop"
  /\ data' = [data EXCEPT ![this[t]] = PopSeq(@)]
  /\ log' = [log EXCEPT ![this[t]] = Append(@, PopEv(value[t]))]
  /\ ret' = [ret EXCEPT ![t] = Some(value[t])]
  /\ pc' = [pc EXCEPT ![t] = "unlock"]
  /\ UNCHANGED <<m, life, op, this, other, new_value, value, res, fresh, overlap>>
  /\ checked' = checked
  /\ Observe(t, "true", "true_value")

\* --------------------------------------------------------------- empty
\* a caller invokes s.empty()
CallEmpty(t) ==
  /\ pc[t] = "idle"
  /\ \E s \in Stacks :
       /\ Alive(s)
       /\ this' = [this EXCEPT ![t] = s]
  /\ pc' = [pc EXCEPT ![t] = "empty_lock"]
  /\ op' = [op EXCEPT ![t] = "empty"]
  /\ UNCHANGED <<data, m, life, other, new_value, value, res, ret, log, fresh, overlap>>
  /\ Forget(t)

\* an empty() that reads the sequence without taking the lock
EmptyLockNone(t) ==
  /\ pc[t] = "empty_lock"
  /\ pc' = [pc EXCEPT ![t] = "empty_body"]
  /\ UNCHANGED <<data, m, life, op, this, other, new_value, value, res, ret, log, fresh, overlap, checked, seen>>

\* std::shared_lock lock(m);
EmptyLock(t) ==
  /\ pc[t] = "empty_lock"
  /\ CanLockShared(this[t])
  /\ m' = LockShared(this[t], t)
  /\ pc' = [pc EXCEPT ![t] = "empty_body"]
  /\ UNCHANGED <<data, life, op, this, other, new_value, value, res, ret, log, fresh, overlap, checked, seen>>

\* an empty() that answers !data.empty()
EmptyBodyNegated(t) ==
  /\ pc[t] = "empty_body"
  /\ ret' = [ret EXCEPT ![t] = Bool(~IsEmpty(data[this[t]]))]
  /\ pc' = [pc EXCEPT ![t] = "empty_unlock"]
  /\ UNCHANGED <<data, m, life, op, this, other, new_value, value, res, log, fresh, overlap, checked, seen>>

\* return data.empty();
EmptyBody(t) ==
  /\ pc[t] = "empty_body"
  /\ ret' = [ret EXCEPT ![t] = Bool(IsEmpty(data[this[t]]))]
  /\ pc' = [pc EXCEPT ![t] = "empty_unlock"]
  /\ UNCHANGED <<data, m, life, op, this, other, new_value, value, res, log, fresh, overlap, checked, seen>>

\* the end of the scope of the std::shared_lock: the call returns
EmptyUnlock(t) ==
  /\ pc[t] = "empty_unlock"
  /\ m' = UnlockShared(this[t], t)
  /\ Returns(t)
  /\ UNCHANGED <<data, life, log, fresh, overlap>>
  /\ Note(t, [ans |-> ret[t].kind, s |-> this[t]])
  /\ seen' = seen

\* -------------------------------------------------------- construction
\* threadsafe_stack() noexcept = default;
DefaultConstruct(t) ==
  /\ pc[t] = "idle"
  /\ \E s \in Stacks :
       /\ life[s] = "none"
       /\ life' = [life EXCEPT ![s] = "alive"]
       /\ data' = [data EXCEPT ![s] = <<>>]
       /\ m' = [m EXCEPT ![s] = Unlocked]
  /\ UNCHANGED <<pc, op, this, other, new_value, value, res, ret, log, fresh, overlap>>
  /\ Forget(t)

\* a caller copy-constructs d from o: the members of d are default-initialized
CallCopy(t) ==
  /\ pc[t] = "idle"
  /\ \E d \in Stacks, o \in Stacks :
       /\ life[d] = "none"
       /\ Alive(o)
       /\ life' = [life EXCEPT ![d] = "constructing"]
       /\ data' = [data EXCEPT ![d] = <<>>]
       /\ m' = [m EXCEPT ![d] = Unlocked]
       /\ this' = [this EXCEPT ![t] = d]
       /\ other' = [other EXCEPT ![t] = o]
  /\ pc' = [pc EXCEPT ![t] = "copy_lock"]
  /\ op' = [op EXCEPT ![t] = "copy"]
  /\ UNCHANGED <<new_value, value, res, ret, log, fresh, overlap>>
  /\ Forget(t)

\* a copy constructor that locks the mutex of the new stack as well
CopyLockBoth(t) ==
  /\ pc[t] = "copy_lock"
  /\ CanLockShared(other[t])
  /\ m' = [LockShared(other[t], t) EXCEPT ![this[t]].excl = t]
  /\ pc' = [pc EXCEPT ![t] = "copy_body"]
  /\ UNCHANGED <<data, life, op, this, other, new_value, value, res, ret, log, fresh, overlap, checked, seen>>

\* std::shared_lock lock(other.m);
CopyLock(t) ==
  /\ pc[t] = "copy_lock"
  /\ CanLockShared(other[t])
  /\ m' = LockShared(other[t], t)
  /\ pc' = [pc EXCEPT ![t] = "copy_body"]
  /\ UNCHANGED <<data, life, op, this, other, new_value, value, res, ret, log, fresh, overlap, checked, seen>>

\* a copy constructor that moves the elements out of its source
CopyBodyMoves(t) ==
  /\ pc[t] = "copy_body"
  /\ data' = [data EXCEPT ![this[t]] = CopyOf(data[other[t]]), ![other[t]] = <<>>]
  /\ log' = [log EXCEPT ![this[t]] = Built(CopyOf(data[other[t]]))]
  /\ UNCHANGED <<fresh, overlap, checked, seen>>
  /\ pc' = [pc EXCEPT ![t] = "copy_unlock"]
  /\ UNCHANGED <<m, life, op, this, other, new_value, value, res, ret>>

\* data = other.data;
CopyBody(t) ==
  /\ pc[t] = "copy_body"
  /\ data' = [data EXCEPT ![this[t]] = CopyOf(data[other[t]])]
  /\ log' = [log EXCEPT ![this[t]] = Built(CopyOf(data[other[t]]))]
  /\ UNCHANGED <<fresh, overlap, checked, seen>>
  /\ pc' = [pc EXCEPT ![t] = "copy_unlock"]
  /\ UNCHANGED <<m, life, op, this, other, new_value, value, res, ret>>

\* the end of the constructor: the shared_lock is released, the object exists
CopyUnlock(t) ==
  /\ pc[t] = "copy_unlock"
  /\ m' = UnlockShared(other[t], t)
  /\ life' = [life EXCEPT ![this[t]] = "alive"]
  /\ Returns(t)
  /\ UNCHANGED <<data, log, fresh, overlap, checked, seen>>

Step(t) ==
  \/ CallPush(t)
  \/ PushLock(t)
  \/ PushBody(t)
  \/ CallEmplace(t)
  \/ EmplaceLock(t)
  \/ EmplaceBody(t)
  \/ CallPop(t)
  \/ PopLock(t)
  \/ PopEmpty(t)
  \/ PopMove(t)
  \/ PopPop(t)
  \/ CallPopV(t)
  \/ PopVLock(t)
  \/ PopVEmpty(t)
  \/ PopVMove(t)
  \/ PopVPop(t)
  \/ ScopedUnlock(t)
  \/ CallEmpty(t)
  \/ EmptyLock(t)
  \/ EmptyBody(t)
  \/ EmptyUnlock(t)
  \/ DefaultConstruct(t)
  \/ CallCopy(t)
  \/ CopyLock(t)
  \/ CopyBody(t)
  \/ CopyUnlock(t)

Next == \E t \in Threads : Step(t)

Spec == Init /\ [][Next]_vars

\* ------------------------------------------------- fair scheduling
\* t takes a lock
Acquire(t) ==
  \/ PushLock(t)
  \/ EmplaceLock(t)
  \/ PopLock(t)
  \/ PopVLock(t)
  \/ EmptyLock(t)
  \/ CopyLock(t)

\* t takes a step of a call that is past its lock statement
Proceed(t) ==
  \/ PushBody(t)
  \/ EmplaceBody(t)
  \/ PopEmpty(t)
  \/ PopMove(t)
  \/ PopPop(t)
  \/ PopVEmpty(t)
  \/ PopVMove(t)
  \/ PopVPop(t)
  \/ ScopedUnlock(t)
  \/ EmptyBody(t)
  \/ EmptyUnlock(t)
  \/ CopyBody(t)
  \/ CopyUnlock(t)

\* every thread inside a call is scheduled, and a thread that can take a
\* lock again and again does take it; no thread has to make a call
Fairness ==
  \A t \in Threads : WF_vars(Proceed(t)) /\ SF_vars(Acquire(t))

InitFair == InitWith(MaxPushFair, {"B"}, FALSE)

SpecFair == InitFair /\ [][Next]_vars /\ Fairness

\* ------------------------------------------------- a single caller
InitSeq == InitWith(MaxPushSeq, {"B"}, FALSE)

NextSeq == Step("t1")

SpecSeq == InitSeq /\ [][NextSeq]_vars

\* ------------------------------------------------- several copies
InitCopy == InitWith(MaxPushCopy, {"B", "C"}, FALSE)

SpecCopy == InitCopy /\ [][Next]_vars

\* ------------------------------------------------- check, then pop
InitAdvisory == InitWith(MaxPushAdv, {"B"}, TRUE)

SpecAdvisory == InitAdvisory /\ [][Next]_vars

\* ------------------------------------------------- reading the history
IsPop(x) == x.e = "pop"

PushesOf(l) == SelectSeq(l, IsPush)

PopsOf(l) == SelectSeq(l, IsPop)

\* the values of the events of l, as a bag
ValueBag(l) ==
  [v \in {l[i].v : i \in DOMAIN l} |-> Cardinality({i \in DOMAIN l : l[i].v = v})]

Max(S) == CHOOSE x \in S : \A y \in S : y <= x

\* the positions in l of the pushes no pop of l has taken, each pop taking
\* the latest push before it that no earlier pop took
RECURSIVE Pending(_)
Pending(l) ==
  IF l = <<>> THEN {}
  ELSE LET n == Len(l)
           p == Pending(SubSeq(l, 1, n - 1))
       IN  IF IsPush(l[n]) THEN p \cup {n}
           ELSE IF p = {} THEN {} ELSE p \ {Max(p)}

\* the sequence a stack with the history l holds after the last event of l
RECURSIVE Replay(_)
Replay(l) ==
  IF l = <<>> THEN <<>>
  ELSE LET n == Len(l)
           r == Replay(SubSeq(l, 1, n - 1))
       IN  IF IsPush(l[n]) THEN Append(r, l[n].v)
           ELSE SubSeq(r, 1, Len(r) - 1)

\* t has the lock and the value its pop or pop(T&) returns
PopReturns(t) == pc[t] = "unlock" /\ op[t] \in {"pop", "popv"}

\* ------------------------------------------------------------------ C1
\* C1: with a single caller, a pop that returns a value returns the value of
\* the latest push that no earlier pop has returned, and a pop returns
\* nullopt only when every push has been popped; a history of n pushes
\* followed by k pops has popped the last k pushed values, last first.
C1_Lifo ==
  /\ \A t \in Threads : PopReturns(t) =>
       LET l == log[this[t]] IN
         IF ret[t] = NullOpt
           THEN Pending(l) = {}
           ELSE /\ ret[t].kind = "some"
                /\ l # <<>>
                /\ IsPop(l[Len(l)])
                /\ LET before == SubSeq(l, 1, Len(l) - 1) IN
                     /\ Pending(before) # {}
                     /\ ret[t].val = l[Max(Pending(before))].v
                     /\ l[Len(l)].v = ret[t].val
  /\ \A s \in Stacks :
       LET l == log[s]
           n == Len(PushesOf(l))
       IN  (\A i \in 1..Len(l) : IsPush(l[i]) <=> i <= n) =>
             \A i \in 1..(Len(l) - n) : l[n + i].v = l[n + 1 - i].v

\* the scenario push(a), push(b), pop() = b, push(c), pop() = c, pop() = a,
\* pop() = nullopt has run
C1_Witness ==
  /\ PopReturns("t1") /\ this["t1"] = "A" /\ ret["t1"] = NullOpt
  /\ LET l == log["A"] IN
       /\ Len(l) = 6
       /\ [i \in 1..6 |-> l[i].e] = <<"push", "push", "pop", "push", "pop", "pop">>
       /\ l[3].v = l[2].v /\ l[5].v = l[4].v /\ l[6].v = l[1].v
       /\ l[1].v # l[2].v /\ l[4].v # l[1].v

\* ------------------------------------------------------------------ C2
\* C2: whenever a stack is empty, as many values have been popped from it
\* as were pushed onto it, and the bag of the popped values is the bag of
\* the pushed values, whatever threads pushed and popped them.
C2_Conservation ==
  \A s \in Stacks : (Alive(s) /\ IsEmpty(data[s])) =>
    /\ Len(PopsOf(log[s])) = Len(PushesOf(log[s]))
    /\ ValueBag(PopsOf(log[s])) = ValueBag(PushesOf(log[s]))

\* two threads were pushing onto "A" at the same time, MaxPush values were
\* pushed, and the pops have emptied it
C2_Witness ==
  /\ overlap /\ life["B"] = "none"
  /\ IsEmpty(data["A"])
  /\ Len(PushesOf(log["A"])) = MaxPush
  /\ \A t \in Threads : pc[t] = "idle"

\* ------------------------------------------------------------------ C3
\* t is between taking and releasing the exclusive lock of this[t]
InMutator(t) ==
  pc[t] \in {"push_body", "emplace_body", "pop_empty", "pop_move", "pop_pop",
             "popv_empty", "popv_move", "popv_pop", "unlock"}

\* t is between taking and releasing the shared lock of s
Reading(t, s) ==
  \/ pc[t] \in {"empty_body", "empty_unlock"} /\ this[t] = s
  \/ pc[t] \in {"copy_body", "copy_unlock"} /\ other[t] = s

C3_State ==
  \A s \in Stacks :
    LET mutators == {t \in Threads : InMutator(t) /\ this[t] = s}
        readers == {t \in Threads : Reading(t, s)}
    IN  /\ Cardinality(mutators) <= 1
        /\ mutators # {} => readers = {}
        /\ \A t \in mutators : m[s].excl = t /\ m[s].shared = {}
        /\ \A t \in readers : t \in m[s].shared /\ m[s].excl = NoThread

\* a step that changes the sequence of a constructed stack is taken by the
\* holder of its exclusive lock
C3_Write ==
  \A s \in Stacks : (Alive(s) /\ data'[s] # data[s]) =>
    \E t \in Threads : m[s].excl = t /\ pc'[t] # pc[t] /\ this[t] = s

\* C3: at most one thread is inside push, emplace or a pop of a stack, no
\* thread reads the sequence (empty, the read of a copy construction) while
\* one is, readers hold the shared lock and mutators the exclusive lock, and
\* the sequence of a constructed stack changes only in a step of the thread
\* that holds its exclusive lock.
C3_Exclusion == []C3_State /\ [][C3_Write]_vars

\* a pop is inside its critical section on "A" while the other thread waits
\* to read "A" for a copy construction
C3_Witness ==
  \E t, u \in Threads :
    /\ pc[t] = "pop_move" /\ this[t] = "A"
    /\ pc[u] = "copy_lock" /\ other[u] = "A"

\* ------------------------------------------------------------------ C4
\* no call ends in an empty_stack exception, and a pop that returns nullopt
\* holds the lock of an empty stack
C4_State ==
  \A t \in Threads :
    /\ ret[t] # EmptyStackThrown
    /\ (PopReturns(t) /\ ret[t] = NullOpt) => IsEmpty(data[this[t]])

\* a pop that finds the stack empty returns nullopt and changes neither the
\* stack nor the caller's value, and its return leaves the stack and its
\* lock as they were before the call took the lock
C4_Step ==
  \A t \in Threads :
    /\ (pc[t] \in {"pop_empty", "popv_empty"} /\ IsEmpty(data[this[t]])
          /\ pc'[t] # pc[t]) =>
         /\ ret'[t] = NullOpt /\ pc'[t] = "unlock"
         /\ data' = data /\ log' = log /\ value' = value
    /\ (PopReturns(t) /\ ret[t] = NullOpt /\ pc'[t] # pc[t]) =>
         /\ pc'[t] = "idle"
         /\ data' = data /\ log' = log /\ m'[this[t]] = Unlocked

\* C4: a pop (either form) of an empty stack returns nullopt, throws nothing
\* and leaves the stack empty and its lock free, so that a repeated pop
\* finds the same state and returns nullopt again.
C4_EmptyPop == []C4_State /\ [][C4_Step]_vars

\* pop(T&) returns nullopt on "A", which held elements before and is empty
C4_Witness ==
  \E t \in Threads :
    /\ PopReturns(t) /\ op[t] = "popv" /\ this[t] = "A"
    /\ ret[t] = NullOpt /\ value[t] = Old
    /\ log["A"] # <<>>

\* ------------------------------------------------------------------ C5
\* C5: the value empty() returns is true exactly when as many pops have
\* taken an element off the stack as pushes (and emplaces) have put one on;
\* for a stack that was copy constructed the elements it was constructed
\* with count as pushed.  A stack nothing was pushed onto answers true.
C5_Empty ==
  \A t \in Threads : pc[t] = "empty_unlock" =>
    LET l == log[this[t]] IN
      /\ ret[t] \in {Bool(TRUE), Bool(FALSE)}
      /\ ret[t] = Bool(TRUE) <=> Len(PushesOf(l)) = Len(PopsOf(l))

\* empty() answers true on "A" after MaxPush pushes and as many pops, while
\* "A" was never copied
C5_Witness ==
  \E t \in Threads :
    /\ pc[t] = "empty_unlock" /\ this[t] = "A" /\ ret[t] = Bool(TRUE)
    /\ Len(PushesOf(log["A"])) = MaxPush
    /\ life["B"] = "none"

\* ------------------------------------------------------------------ C6
\* the copy holds what the source holds while the copy constructor has the
\* shared lock of the source
C6_State ==
  \A t \in Threads : pc[t] = "copy_unlock" =>
    /\ data[this[t]] = data[other[t]]
    /\ log[this[t]] = Built(data[other[t]])

\* the sequence of a stack changes only in a step of a call on that stack
C6_Frame ==
  \A s \in Stacks : data'[s] # data[s] =>
    \E t \in Threads : pc'[t] # pc[t] /\ this[t] = s

\* C6: a stack copy constructed from another holds the same elements in the
\* same order as the source held during the copy, and afterwards a push or
\* pop on either of the two stacks leaves the other's sequence unchanged.
C6_Copy == []C6_State /\ [][C6_Frame]_vars

\* "B" was copied from "A" holding two elements and has been popped empty,
\* top first, while "A" still holds both
C6_Witness ==
  /\ Alive("B") /\ Len(data["A"]) = 2 /\ IsEmpty(data["B"])
  /\ LET l == log["B"] IN
       /\ Len(l) = 4
       /\ SubSeq(l, 1, 2) = Built(data["A"])
       /\ l[3] = PopEv(data["A"][2]) /\ l[4] = PopEv(data["A"][1])

\* ------------------------------------------------------------------ C7
\* t is in a pop, between its emptiness test and its removal of the top
InPop(t) == pc[t] \in {"pop_move", "pop_pop", "popv_move", "popv_pop"}

C7_State ==
  /\ \A t \in Threads : InPop(t) =>
       /\ ~IsEmpty(data[this[t]])
       /\ m[this[t]].excl = t
       /\ pc[t] = "pop_pop" => Top(data[this[t]]) \in MovedFrom(res[t])
       /\ pc[t] = "popv_pop" => Top(data[this[t]]) \in MovedFrom(value[t])
  \* a moved-from element is the top of a stack a pop is about to remove it
  \* from: no reader and no other mutator meets one
  /\ \A s \in Stacks : \A i \in DOMAIN data[s] : data[s][i] = Moved =>
       /\ i = Len(data[s])
       /\ \E t \in Threads : this[t] = s /\ pc[t] \in {"pop_pop", "popv_pop"}
  /\ \A t \in Threads : ret[t].kind = "some" => ret[t].val \in Values

\* while t is between the test and the removal, no step of another thread
\* changes the sequence or the lock of the stack
C7_Step ==
  \A t \in Threads : (InPop(t) /\ pc'[t] = pc[t]) =>
    /\ data'[this[t]] = data[this[t]]
    /\ m'[this[t]] = m[this[t]]

\* C7: the emptiness test, the read of the top and its removal of one pop
\* happen in one uninterrupted hold of the exclusive lock: a pop past its
\* test has a non-empty stack whose top is the element it read, and no other
\* thread meets a moved-from element or changes the stack meanwhile.
C7_Atomic == []C7_State /\ [][C7_Step]_vars

\* two pops race for the last element of "A": one is past its emptiness
\* test, the other waits for the lock
C7_Witness ==
  \E t, u \in Threads :
    /\ Len(data["A"]) = 1
    /\ pc[t] = "pop_move" /\ this[t] = "A"
    /\ pc[u] = "popv_lock" /\ this[u] = "A"

\* ------------------------------------------------------------------ C8
\* t waits at the lock statement of its call
AtLock(t) ==
  pc[t] \in {"push_lock", "emplace_lock", "pop_lock", "popv_lock", "empty_lock",
             "copy_lock"}

\* a thread past its lock statement can take its next step, and a thread at
\* its lock statement can take the lock or a holder of it can take a step
C8_State ==
  \A t \in Threads :
    /\ (pc[t] # "idle" /\ ~AtLock(t)) => ENABLED Proceed(t)
    /\ AtLock(t) =>
         \/ ENABLED Acquire(t)
         \/ \E u \in Threads \ {t} : ~AtLock(u) /\ ENABLED Proceed(u)

\* C8: under fair scheduling every call returns, whether or not any other
\* call is ever made (a pop of an empty stack does not wait for a push); no
\* state is a deadlock, and a call waits for nothing but the lock.
C8_Returns ==
  /\ []C8_State
  /\ \A t \in Threads : (pc[t] # "idle") ~> (pc[t] = "idle")

\* a pop waits for the lock of the empty stack "A", which another thread
\* holds, and no push has been called
C8_Witness ==
  \E t, u \in Threads :
    /\ pc[t] = "pop_lock" /\ this[t] = "A"
    /\ m["A"].excl = u /\ IsEmpty(data["A"])
    /\ fresh = 1..MaxPushFair

\* ------------------------------------------------------------------ C9
C9_State ==
  \A t \in Threads : (PopReturns(t) /\ op[t] = "popv") =>
    IF ret[t] = NullOpt
      THEN value[t] = Old
      ELSE /\ ret[t].kind = "some"
           /\ ret[t].val = value[t]
           /\ value[t] \in Values
           /\ log[this[t]] # <<>>
           /\ log[this[t]][Len(log[this[t]])] = PopEv(value[t])

\* the step that ends pop(T&) returns a value exactly when it takes an
\* element off the stack, and the element it takes off is the top, whose
\* value the result holds
C9_Step ==
  \A t \in Threads : (op[t] = "popv" /\ pc[t] # "unlock" /\ pc'[t] = "unlock") =>
    LET d == data[this[t]]
        d2 == data'[this[t]]
    IN  /\ ret'[t] = NullOpt <=> d2 = d
        /\ ret'[t].kind = "some" <=>
             (d # <<>> /\ d2 = SubSeq(d, 1, Len(d) - 1))
        /\ ret'[t].kind = "some" => Top(d) \in MovedFrom(ret'[t].val)

\* C9: when pop(T&) returns a value, the caller's T and the returned
\* optional hold the value of the element taken off the top; when it returns
\* nullopt the stack is unchanged and the caller's T holds what it held; it
\* returns a value exactly when it took an element off.
C9_PopInto == []C9_State /\ [][C9_Step]_vars

\* pop(T&) returns a pushed value, which the caller's T holds too
C9_Witness ==
  \E t \in Threads :
    /\ PopReturns(t) /\ op[t] = "popv"
    /\ ret[t].kind = "some" /\ ret[t].val \in Values /\ value[t] = ret[t].val

\* ----------------------------------------------------------------- C10
\* emplace read as push, and push read as emplace
AsPush(l) ==
  CASE l = "emplace_lock" -> "push_lock"
    [] l = "emplace_body" -> "push_body"
    [] l = "emplace" -> "push"
    [] OTHER -> l

AsEmplace(l) ==
  CASE l = "push_lock" -> "emplace_lock"
    [] l = "push_body" -> "emplace_body"
    [] l = "push" -> "emplace"
    [] OTHER -> l

PushView(f) == [t \in Threads |-> AsPush(f[t])]

EmplaceView(f) == [t \in Threads |-> AsEmplace(f[t])]

\* a step of emplace is the step push takes from the same state, and a step
\* of push is the step emplace takes
C10_Step ==
  \A t \in Threads :
    /\ CallEmplace(t) =>
         CallPushIn(t, PushView(pc), PushView(op), PushView(pc'), PushView(op'))
    /\ EmplaceLock(t) =>
         PushLockIn(t, PushView(pc), PushView(op), PushView(pc'), PushView(op'))
    /\ EmplaceBody(t) =>
         PushBodyIn(t, PushView(pc), PushView(op), PushView(pc'), PushView(op'))
    /\ CallPush(t) =>
         CallEmplaceIn(t, EmplaceView(pc), EmplaceView(op), EmplaceView(pc'), EmplaceView(op'))
    /\ PushLock(t) =>
         EmplaceLockIn(t, EmplaceView(pc), EmplaceView(op), EmplaceView(pc'), EmplaceView(op'))
    /\ PushBody(t) =>
         EmplaceBodyIn(t, EmplaceView(pc), EmplaceView(op), EmplaceView(pc'), EmplaceView(op'))

\* emplace can take a step exactly where push can
C10_State ==
  \A t \in Threads :
    /\ pc[t] = "idle" => (ENABLED CallEmplace(t) <=> ENABLED CallPush(t))
    /\ pc[t] = "emplace_lock" => (ENABLED EmplaceLock(t) <=> CanLock(this[t]))
    /\ pc[t] = "push_lock" => (ENABLED PushLock(t) <=> CanLock(this[t]))
    /\ pc[t] = "emplace_body" => ENABLED EmplaceBody(t)
    /\ pc[t] = "push_body" => ENABLED PushBody(t)

\* C10: emplace(v) takes the steps of push(v): it waits for and takes the
\* lock where push does, leaves the same sequence and the same lock state,
\* and so leaves every later operation the state push would have left.
C10_EmplaceIsPush == []C10_State /\ [][C10_Step]_vars

\* an emplace has put its value on top of a pushed element
C10_Witness ==
  \E t \in Threads :
    /\ pc[t] = "unlock" /\ op[t] = "emplace"
    /\ Len(data[this[t]]) = 2
    /\ Len(log[this[t]]) = 2

\* ----------------------------------------------------------------- C11
\* the stacks whose lock t holds, in either mode
Holds(t) == {s \in Stacks : m[s].excl = t \/ t \in m[s].shared}

\* the stack whose lock t is waiting for or about to take
Wants(t) == IF pc[t] = "copy_lock" THEN other[t] ELSE this[t]

\* t waits at its lock statement for a lock that u holds
WaitsFor(t, u) ==
  /\ AtLock(t)
  /\ Wants(t) \in Holds(u)
  /\ IF pc[t] \in {"empty_lock", "copy_lock"}
       THEN ~CanLockShared(Wants(t))
       ELSE ~CanLock(Wants(t))

C11_State ==
  /\ \A t \in Threads :
       /\ Cardinality(Holds(t)) <= 1
       /\ AtLock(t) => Holds(t) = {}
       /\ pc[t] \in {"copy_body", "copy_unlock"} =>
            /\ Holds(t) = {other[t]}
            /\ t \in m[other[t]].shared
            /\ m[other[t]].excl = NoThread
            /\ other[t] # this[t]
  \* the mutex of a stack under construction is never taken
  /\ \A s \in Stacks : life[s] = "constructing" => m[s] = Unlocked
  \* a thread that is waited for is not itself waiting: no cycle of waits
  /\ \A t, u \in Threads : WaitsFor(t, u) => (u # t /\ ~AtLock(u))

\* the steps of a copy construction: one acquisition, of the source's lock in
\* shared mode, the read of the source under it, and its release
C11_Step ==
  \A t \in Threads : (op[t] = "copy" /\ pc'[t] # pc[t]) =>
    /\ pc[t] = "copy_lock" => m' = LockShared(other[t], t)
    /\ pc[t] = "copy_body" =>
         /\ m' = m
         /\ t \in m[other[t]].shared
         /\ data'[this[t]] = data[other[t]]
    /\ pc[t] = "copy_unlock" =>
         /\ m' = UnlockShared(other[t], t)
         /\ Holds(t)' = {}

\* C11: a copy construction takes one lock only, the source's, in shared
\* mode, and holds it throughout the read of the source's sequence; no thread
\* holds the locks of two stacks at once and no thread that holds a lock
\* waits for one, so that no cycle of threads waiting for locks is reached,
\* also when several stacks are copied while others push and pop.
C11_OneLock == []C11_State /\ [][C11_Step]_vars

\* "B", itself a copy of "A", is being read for the construction of "C"
\* while the other thread is inside a pop on "A"
C11_Witness ==
  \E t, u \in Threads :
    /\ pc[t] = "copy_body" /\ other[t] = "B" /\ this[t] = "C"
    /\ ~IsEmpty(data["B"])
    /\ pc[u] = "pop_move" /\ this[u] = "A"

\* ----------------------------------------------------------------- C12
\* while the copy constructor holds the shared lock, no thread is inside a
\* mutator of the source, the source holds the whole sequence its pushes and
\* pops have left, and what has been copied is that sequence
C12_State ==
  \A t \in Threads : pc[t] \in {"copy_body", "copy_unlock"} =>
    LET a == data[other[t]] IN
      /\ \A u \in Threads : InMutator(u) => this[u] # other[t]
      /\ a = Replay(log[other[t]])
      /\ \A i \in DOMAIN a : a[i] \in Values
      /\ pc[t] = "copy_unlock" => data[this[t]] = a

\* no step taken while the shared lock is held, the steps of the copy
\* included, changes the sequence of the source; the new stack is empty until
\* the one step that gives it the sequence of the source
C12_Step ==
  \A t \in Threads :
    /\ (pc[t] \in {"copy_body", "copy_unlock"}) =>
         /\ data'[other[t]] = data[other[t]]
         /\ log'[other[t]] = log[other[t]]
    /\ (op[t] = "copy" /\ pc[t] # "copy_unlock") => data[this[t]] = <<>>
    /\ (op[t] = "copy" /\ data'[this[t]] # data[this[t]]) =>
         /\ pc[t] = "copy_body"
         /\ data'[this[t]] = data[other[t]]

\* C12: the copy is the whole sequence of the source at one instant at which
\* the copy constructor holds the shared lock: the sequence the completed
\* pushes and pops of the source have left, never one with a moved-from or
\* half-removed element; the source is not changed by the copy, nor by any
\* other thread while the lock is held.
C12_Snapshot == []C12_State /\ [][C12_Step]_vars

\* "A", pushed twice and popped once, has been copied while the other thread
\* waits for its lock to pop it
C12_Witness ==
  \E t, u \in Threads :
    /\ pc[t] = "copy_unlock" /\ other[t] = "A"
    /\ Len(log["A"]) = 3 /\ Len(data[this[t]]) = 1
    /\ pc[u] = "pop_lock" /\ this[u] = "A"

\* ----------------------------------------------------------------- C13
\* the values of the sequence d, as a bag
SeqBag(d) ==
  [v \in {d[i] : i \in DOMAIN d} |-> Cardinality({i \in DOMAIN d : d[i] = v})]

\* the elements of s: its sequence, the top a pop has moved from and is
\* about to remove holding the value that pop took from it
InStack(s) ==
  LET taking == {t \in Threads : this[t] = s /\ pc[t] \in {"pop_pop", "popv_pop"}}
  IN  IF taking = {} THEN data[s]
      ELSE LET t == CHOOSE u \in taking : TRUE
           IN  SetTop(data[s], IF pc[t] = "pop_pop" THEN res[t] ELSE value[t])

\* C13: in every state, whatever the interleaving of pushes and pops, the
\* pushed elements of a stack are its elements together with the elements
\* successful pops have returned, as bags; no element is returned by two
\* pops, and an element a pop has returned is not in the stack.
C13_Ownership ==
  /\ \A s \in Stacks :
       LET l == log[s] IN
         /\ ValueBag(PushesOf(l)) = SeqBag(InStack(s)) (+) ValueBag(PopsOf(l))
         /\ \A i, j \in DOMAIN l :
              (IsPop(l[i]) /\ IsPop(l[j]) /\ l[i].v = l[j].v) => i = j
         /\ \A i \in DOMAIN l : IsPop(l[i]) =>
              \A k \in DOMAIN data[s] : data[s][k] # l[i].v
  /\ \A t \in Threads : (PopReturns(t) /\ ret[t].kind = "some") =>
       /\ \A k \in DOMAIN data[this[t]] : data[this[t]][k] # ret[t].val
       /\ \E i \in DOMAIN log[this[t]] : log[this[t]][i] = PushEv(ret[t].val)

\* a push, a pop and a push have run on "A", and a pop(T&) has moved from
\* the top and not yet removed it while the other thread waits to pop
C13_Witness ==
  \E t, u \in Threads :
    /\ pc[t] = "popv_pop" /\ this[t] = "A" /\ Top(data["A"]) = Moved
    /\ pc[u] = "pop_lock" /\ this[u] = "A"
    /\ Len(log["A"]) = 3
    /\ IsPush(log["A"][1]) /\ IsPop(log["A"][2]) /\ IsPush(log["A"][3])

\* ----------------------------------------------------------------- C14
\* the answer of empty() is the emptiness of the sequence for as long as
\* empty() holds the shared lock, and the recorded answer is the one given
C14_State ==
  \A t \in Threads :
    /\ pc[t] = "empty_unlock" =>
         /\ ret[t] = Bool(IsEmpty(data[this[t]]))
         /\ t \in m[this[t]].shared
    /\ checked[t].ans \in {"true", "false"} =>
         /\ op[t] \in {"none", "pop", "popv"}
         /\ op[t] # "none" => this[t] = checked[t].s
    /\ (PopReturns(t) /\ checked[t].ans = "false" /\ ret[t] = NullOpt) =>
         "false_absent" \in seen
    /\ (PopReturns(t) /\ checked[t].ans = "true" /\ ret[t].kind = "some") =>
         "true_value" \in seen

\* no step changes the sequence while empty() holds the shared lock, and the
\* return of empty() gives the lock up: nothing keeps the answer true for
\* the call that follows
C14_Step ==
  \A t \in Threads :
    /\ pc[t] \in {"empty_body", "empty_unlock"} =>
         data'[this[t]] = data[this[t]]
    /\ (pc[t] = "empty_unlock" /\ pc'[t] # pc[t]) =>
         /\ checked'[t] = [ans |-> ret[t].kind, s |-> this[t]]
         /\ t \notin m'[this[t]].shared
         /\ m'[this[t]].excl = NoThread

\* C14: empty() answers the emptiness of the sequence at the time it holds
\* the shared lock, during which the sequence does not change; it returns
\* with the lock released, so that the pop its caller makes next meets
\* whatever other threads have left: absent after the answer false, a value
\* after the answer true.
C14_Advisory == []C14_State /\ [][C14_Step]_vars

\* both have happened: a pop returned absent right after its caller's
\* empty() answered false, and a pop returned a value right after its
\* caller's empty() answered true
C14_Witness == seen = {"false_absent", "true_value"}

\* ----------------------------------------------------------------- C15
\* the history of a stack, which lists its pushes and successful pops in the
\* order in which they held the exclusive lock, is a history of a LIFO
C15_State ==
  /\ \A s \in Stacks :
       LET l == log[s] IN
         \A n \in DOMAIN l : IsPop(l[n]) =>
           LET before == SubSeq(l, 1, n - 1) IN
             /\ Pending(before) # {}
             /\ l[n].v = l[Max(Pending(before))].v
  /\ \A t \in Threads : PopReturns(t) =>
       LET l == log[this[t]] IN
         /\ ret[t] = NullOpt => Pending(l) = {}
         /\ ret[t] # NullOpt => (l # <<>> /\ l[Len(l)] = PopEv(ret[t].val))

\* an event enters the history of a constructed stack at its end, in a step
\* of the thread that holds the exclusive lock, one event for each push and
\* each successful pop and none for a pop that returns nullopt
C15_Step ==
  /\ \A s \in Stacks : (Alive(s) /\ log'[s] # log[s]) =>
       /\ \E e \in {PushEv(v) : v \in Values} \cup {PopEv(v) : v \in Values} :
            log'[s] = Append(log[s], e)
       /\ \E t \in Threads : m[s].excl = t /\ this[t] = s /\ pc'[t] = "unlock"
  /\ \A t \in Threads : (pc[t] # "unlock" /\ pc'[t] = "unlock") =>
       LET l == log[this[t]]
           l2 == log'[this[t]]
       IN  /\ m[this[t]].excl = t
           /\ op[t] \in {"push", "emplace"} =>
                (Len(l2) = Len(l) + 1 /\ IsPush(l2[Len(l2)]))
           /\ ret'[t].kind = "some" =>
                (Len(l2) = Len(l) + 1 /\ l2[Len(l2)] = PopEv(ret'[t].val))
           /\ ret'[t] = NullOpt => l2 = l

\* C15: with the pushes and pops of concurrent callers put in the order in
\* which they held the exclusive lock, each successful pop returns the value
\* of the latest push before it that no pop before it returned, and a pop
\* returns nullopt only when every push before it has been popped.
C15_Linearizable == []C15_State /\ [][C15_Step]_vars

\* two pushes were in progress on "A" at once, two pops by different routes
\* have returned the values last pushed first, and a pop now returns nullopt
\* while the other thread waits for the lock to pop as well
C15_Witness ==
  \E t, u \in Threads :
    /\ overlap
    /\ PopReturns(t) /\ this[t] = "A" /\ ret[t] = NullOpt
    /\ pc[u] = "popv_lock" /\ this[u] = "A"
    /\ LET l == log["A"] IN
         /\ Len(l) = 4
         /\ IsPush(l[1]) /\ IsPush(l[2])
         /\ l[3] = PopEv(l[2].v) /\ l[4] = PopEv(l[1].v)

\* ----------------------------------------------------------------- C16
\* the elements of d under its top
Below(d) == SubSeq(d, 1, Len(d) - 1)

\* a push that has the lock can take its step and returns nothing but void;
\* between operations a stack holds what its pushes and pops have left
C16_State ==
  /\ \A t \in Threads :
       /\ pc[t] = "push_body" => ENABLED PushBody(t)
       /\ (pc[t] = "unlock" /\ op[t] = "push") => ret[t] = Void
  /\ \A s \in Stacks :
       (\A t \in Threads : this[t] = s => ~InPop(t) \/ pc[t] \in {"pop_move", "popv_move"})
         => data[s] = Replay(log[s])

\* the step of push adds its value on top of the elements there are; of the
\* steps of a successful pop the first leaves the elements under the top
\* alone and the second removes the top
C16_Step ==
  \A t \in Threads : pc'[t] # pc[t] =>
    LET d == data[this[t]]
        d2 == data'[this[t]]
    IN  /\ pc[t] = "push_body" =>
             /\ Len(d2) = Len(d) + 1
             /\ Top(d2) = new_value[t]
             /\ Below(d2) = d
        /\ pc[t] \in {"pop_move", "popv_move"} =>
             /\ Len(d2) = Len(d)
             /\ Below(d2) = Below(d)
        /\ pc[t] \in {"pop_pop", "popv_pop"} =>
             /\ Len(d2) = Len(d) - 1
             /\ d2 = Below(d)
             /\ ret'[t].kind = "some"
        /\ pc[t] \in {"push_body", "pop_move", "popv_move", "pop_pop", "popv_pop"} =>
             \A s \in Stacks \ {this[t]} : data'[s] = data[s]

\* C16: push always succeeds, making the sequence one longer with its value
\* on top and the elements there were under it, unchanged and in order; a
\* successful pop makes the sequence one shorter, taking the top off and
\* leaving the elements under it unchanged and in order.
C16_Frame == []C16_State /\ [][C16_Step]_vars

\* after two pushes a pop has taken the second pushed value off "A", whose
\* first pushed value is still there
C16_Witness ==
  \E t \in Threads :
    /\ PopReturns(t) /\ this[t] = "A"
    /\ LET l == log["A"] IN
         /\ Len(l) = 3 /\ IsPush(l[1]) /\ IsPush(l[2]) /\ IsPop(l[3])
         /\ ret[t] = Some(l[2].v)
         /\ data["A"] = <<l[1].v>>

\* ----------------------------------------------------------------- C17
\* the stack whose lock the call of t takes
LockOf(t) == IF op[t] = "copy" THEN other[t] ELSE this[t]

\* t is in a call that works on s
Using(t, s) == op[t] # "none" /\ (this[t] = s \/ other[t] = s)

\* a thread that is in no call or has not reached past its lock statement
\* holds no lock, a thread past it holds the one lock of its call, and the
\* lock of a stack no call works on is free
C17_State ==
  /\ \A t \in Threads :
       /\ (pc[t] = "idle" \/ AtLock(t)) => Holds(t) = {}
       /\ (pc[t] # "idle" /\ ~AtLock(t)) => Holds(t) = {LockOf(t)}
       /\ InMutator(t) => m[this[t]].excl = t
  /\ \A s \in Stacks :
       (\A t \in Threads : ~Using(t, s)) => m[s] = Unlocked

\* a call reaches its lock statement once, from its start, takes the lock
\* there and nowhere else, and gives it up in the step in which it returns
C17_Step ==
  \A t \in Threads :
    /\ (AtLock(t)' /\ pc'[t] # pc[t]) => pc[t] = "idle"
    /\ (Holds(t)' # Holds(t)) =>
         \/ AtLock(t) /\ Holds(t) = {} /\ Holds(t)' = {LockOf(t)} /\ ~AtLock(t)'
         \/ pc[t] \in {"unlock", "empty_unlock", "copy_unlock"}
              /\ pc'[t] = "idle" /\ Holds(t)' = {}
    /\ (pc[t] # "idle" /\ pc'[t] = "idle") =>
         /\ Holds(t)' = {}
         /\ pc[t] \in {"unlock", "empty_unlock", "copy_unlock"}

\* C17: every operation takes the lock once, holding none when it does, and
\* has given it up when it returns, also when a pop returns early from an
\* empty stack; the lock of a stack no operation is in progress on is free.
C17_LockOnce == []C17_State /\ [][C17_Step]_vars

\* a pop(T&) is on its early return from the empty stack "A", still holding
\* the lock the other thread's empty() waits for
C17_Witness ==
  \E t, u \in Threads :
    /\ pc[t] = "unlock" /\ op[t] = "popv" /\ ret[t] = NullOpt /\ this[t] = "A"
    /\ m["A"].excl = t
    /\ pc[u] = "empty_lock" /\ this[u] = "A"

\* ----------------------------------------------------------------- C18
\* a mutex is held in one mode at a time; empty() and the read of a copy
\* construction hold it in shared mode; a reader at its lock statement can
\* take the lock whatever readers hold it, unless a mutator holds it, and no
\* mutator can take it while a reader holds it
C18_State ==
  /\ \A s \in Stacks :
       /\ m[s].excl # NoThread => m[s].shared = {}
       /\ m[s].shared # {} => m[s].excl = NoThread
       /\ m[s].shared = {t \in Threads : Reading(t, s)}
       /\ m[s].excl \notin m[s].shared
  /\ \A t \in Threads :
       /\ pc[t] = "empty_lock" =>
            (ENABLED EmptyLock(t) <=> m[this[t]].excl = NoThread)
       /\ pc[t] = "copy_lock" =>
            (ENABLED CopyLock(t) <=> m[other[t]].excl = NoThread)
       /\ (AtLock(t) /\ pc[t] \notin {"empty_lock", "copy_lock"}) =>
            (ENABLED Acquire(t) <=> m[this[t]] = Unlocked)

\* a reader that takes the lock joins the readers that hold it
C18_Step ==
  \A t \in Threads :
    (pc[t] \in {"empty_lock", "copy_lock"} /\ pc'[t] # pc[t]) =>
      /\ m'[LockOf(t)].shared = m[LockOf(t)].shared \cup {t}
      /\ m'[LockOf(t)].excl = NoThread

\* C18: empty() and the read of a copy construction take the lock in shared
\* mode, so that several of them hold the lock of one stack at once, while
\* no thread holds it exclusively when any holds it shared.
C18_SharedReaders == []C18_State /\ [][C18_Step]_vars

\* an empty() of "A" and the read of "A" for a copy construction hold the
\* lock of "A" together
C18_Witness ==
  \E t, u \in Threads :
    /\ pc[t] = "empty_body" /\ this[t] = "A"
    /\ pc[u] = "copy_body" /\ other[u] = "A"
    /\ m["A"].shared = {t, u} /\ t # u
    /\ ~IsEmpty(data["A"])

====
